---- MODULE Spec2Model ----
(***************************************************************************)
(* Model of test-espn-api-library.py: a linear diagnostic script that      *)
(* imports espn_api.football.League, builds a league handle, probes its    *)
(* draft and its teams/rosters, and prints a verdict.                      *)
(*                                                                         *)
(* The state is the script's control position, its standard output, its    *)
(* exit status and the local variables of main and of the probes.  The     *)
(* external library is the environment: the League constructor returns one *)
(* of a bounded set of league objects (any combination of name, teams and  *)
(* current_week present or missing, with or without draft and picks), and  *)
(* every interaction with the library inside a try block may raise.        *)
(* "Raises" stands for an exception of class Exception, the class the      *)
(* probes' handlers name; the import handler names ImportError, and that   *)
(* is the import failure modelled.  A League instance is truthy            *)
(* (espn_api's League defines neither __bool__ nor __len__).               *)
(*                                                                         *)
(* reads and raised are history variables: the library objects the script  *)
(* has touched, and the places where the environment raised.               *)
(***************************************************************************)
EXTENDS Integers, Sequences, FiniteSets, TLC

VARIABLES pc, out, exitStatus, league, draft, picks, i, teams, teamIdx,
          roster, playerIdx, calls, reads, raised

vars == <<pc, out, exitStatus, league, draft, picks, i, teams, teamIdx,
          roster, playerIdx, calls, reads, raised>>

(* ---- bounds of the environment ---------------------------------------- *)
MaxTeams == 4
MaxPicks == 11
MaxRoster == 4
MaxLayout == 2

(* ---- literals of the script ------------------------------------------- *)
LeagueId == 449753582
Year == 2025
SepWidth == 50
PickSlice == 10
PickBreak == 5
TeamSlice == 3
PlayerSlice == 3
ExitFailure == 1
ExitSuccess == 0
Running == -1

Min(a, b) == IF a < b THEN a ELSE b

(* s[:n] for a list s *)
Take(s, n) == SubSeq(s, 1, Min(n, Len(s)))

(* ---- rendered values and printed lines --------------------------------- *)
(* What an f-string renders for an attribute: the attribute's own value    *)
(* (identified by the object it was read from) or a literal default.       *)
Value(kind, t, p, attr) == [kind |-> kind, t |-> t, p |-> p, text |-> attr]
Default(text) == [kind |-> "default", t |-> 0, p |-> 0, text |-> text]
AttributeError == [kind |-> "AttributeError", t |-> 0, p |-> 0, text |-> ""]

(* One print call: the fixed text (tag), the number it interpolates (or    *)
(* -1), the attribute renderings it interpolates, the name list it         *)
(* interpolates.                                                           *)
Msg(tag, n, vals, names) == [tag |-> tag, n |-> n, vals |-> vals, names |-> names]
Line(tag) == Msg(tag, -1, <<>>, {})
LineN(tag, n) == Msg(tag, n, <<>>, {})
LineV(tag, n, vals) == Msg(tag, n, vals, {})

(* ---- objects of the external library ----------------------------------- *)
(* An object is known to the script only through the set of attribute      *)
(* names it has and, for a list-valued attribute, the list.                *)

(* getattr(obj, attr, default); kind, t, p identify obj *)
GetattrNoDefault(kind, t, p, attrs, attr, default) ==
    IF attr \in attrs THEN Value(kind, t, p, attr) ELSE AttributeError

Getattr(kind, t, p, attrs, attr, default) ==
    IF attr \in attrs THEN Value(kind, t, p, attr) ELSE Default(default)

(* hasattr(obj, attr) *)
Hasattr(attrs, attr) == attr \in attrs

(* attr.startswith('_') *)
StartsWithUnderscore(attr) == SubSeq(attr, 1, 1) = "_"

(* [attr for attr in dir(obj) if not attr.startswith('_')] *)
PublicNamesAll(names) == names

PublicNames(names) == {a \in names : ~StartsWithUnderscore(a)}

(* `x if x else 0`-style truthiness of a list-or-None value *)
Truthy(v) == ~v.none /\ Len(v.items) > 0

(* len(v) if v else 0 *)
LenOrZero(v) == IF Truthy(v) THEN Len(v.items) ELSE 0

NoneValue == [none |-> TRUE, items |-> <<>>]
ListValue(items) == [none |-> FALSE, items |-> items]

(* Names every object of the library carries besides its data attributes. *)
ObjectNames == {"__class__", "__init__"}
LeagueMethodNames == {"_fetch_league", "refresh", "standings"}

LeagueAttrs == {"name", "teams", "current_week"}
PickAttrs == {"player_name", "team_id", "round_num", "pick_num"}
TeamAttrs == {"team_id", "team_name", "owner"}
PlayerAttrs == {"name", "position"}

(* The attribute names the j-th pick, the k-th team and the j-th player of *)
(* the k-th team have: fixtures that mix complete, bare and partial        *)
(* objects.                                                                *)
PickAttrsOf(j) ==
    CASE j % 4 = 1 -> PickAttrs
      [] j % 4 = 2 -> {}
      [] j % 4 = 3 -> {"team_id", "pick_num"}
      [] OTHER -> {"player_name", "round_num"}

TeamAttrsOf(k) ==
    CASE k % 3 = 1 -> TeamAttrs
      [] k % 3 = 2 -> {}
      [] OTHER -> {"team_name"}

PlayerAttrsOf(k, j) ==
    CASE (k + j) % 3 = 0 -> PlayerAttrs
      [] (k + j) % 3 = 1 -> {}
      [] OTHER -> {"name"}

PickObj(j) == [id |-> j, attrs |-> PickAttrsOf(j)]
PlayerObj(k, j) == [id |-> j, attrs |-> PlayerAttrsOf(k, j)]

(* The roster of team k under roster layout `base`, by its code: a list   *)
(* of MaxRoster, MaxRoster - 2, ... players (odd codes), no roster         *)
(* attribute (code 2), a None roster (code 4), or a list of one player.    *)
RosterCode(k, base) == (base + k) % (MaxRoster + 3)

RosterSize(c) ==
    IF c % 2 = 1
    THEN (IF MaxRoster + 1 - c > 0 THEN MaxRoster + 1 - c ELSE 0)
    ELSE 1

TeamObj(k, base) ==
    LET c == RosterCode(k, base)
    IN [id |-> k,
        attrs |-> TeamAttrsOf(k) \cup (IF c = 2 THEN {} ELSE {"roster"}),
        roster |-> IF c \in {2, 4} THEN NoneValue
                   ELSE ListValue([j \in 1..RosterSize(c) |-> PlayerObj(k, j)])]

RosterLayouts == 0..MaxLayout

(* Draft objects: a league without draft (has = FALSE), a draft without   *)
(* picks, picks None, or a list of 0..MaxPicks picks.                      *)
NoDraft == [has |-> FALSE, attrs |-> {}, picks |-> NoneValue]

DraftObjects ==
    {NoDraft,
     [has |-> TRUE, attrs |-> ObjectNames \cup {"_league"}, picks |-> NoneValue],
     [has |-> TRUE, attrs |-> ObjectNames \cup {"_league", "picks"}, picks |-> NoneValue]}
    \cup {[has |-> TRUE, attrs |-> ObjectNames \cup {"_league", "picks"},
           picks |-> ListValue([j \in 1..n |-> PickObj(j)])] : n \in 0..MaxPicks}

(* League objects the constructor can return: which of name, teams and    *)
(* current_week it has, its teams (nteams of them, rosters laid out by     *)
(* layout) and its draft.                                                  *)
LeagueObjects ==
    {lg \in [handle : {TRUE}, attrs : SUBSET LeagueAttrs, nteams : 0..MaxTeams,
             layout : RosterLayouts, draft : DraftObjects] :
        /\ "teams" \notin lg.attrs => lg.nteams = 0
        /\ lg.nteams = 0 => lg.layout = 0}

(* the absent league: what test_league_access returns on failure *)
None == [handle |-> FALSE, attrs |-> {}, nteams |-> 0, layout |-> 0, draft |-> NoDraft]

(* league.teams, when the league has the attribute *)
TeamObjs(lg) == [k \in 1..lg.nteams |-> TeamObj(k, lg.layout)]

(* ---- straight-line code inside a try block ------------------------------ *)
(* A step is one statement: the external interaction it performs (site,    *)
(* "-" when it performs none), the object it touches, the attribute        *)
(* values it obtains and the line it prints afterwards ("-" tag when it    *)
(* prints nothing).  A step raises when the environment raises at its      *)
(* site or when one of its reads raised AttributeError.  Running the steps *)
(* executes the ones before the first step that raises.                    *)
NoMsg == Line("-")
NoObj == <<"-", 0, 0>>
Step(site, obj, got, msg) == [site |-> site, obj |-> obj, got |-> got, msg |-> msg]
Say(msg) == Step("-", NoObj, <<>>, msg)

Raises(step, fault) ==
    \/ step.site # "-" /\ step.site = fault
    \/ \E k \in 1..Len(step.got) : step.got[k] = AttributeError

FaultIndex(steps, fault) ==
    IF \E k \in 1..Len(steps) : Raises(steps[k], fault)
    THEN CHOOSE k \in 1..Len(steps) :
            /\ Raises(steps[k], fault)
            /\ \A j \in 1..(k - 1) : ~Raises(steps[j], fault)
    ELSE Len(steps) + 1

Faulted(steps, fault) == FaultIndex(steps, fault) <= Len(steps)

SelectMsgs(steps) ==
    LET F[k \in 0..Len(steps)] ==
            IF k = 0 THEN <<>>
            ELSE IF steps[k].msg.tag = "-" THEN F[k - 1]
                 ELSE Append(F[k - 1], steps[k].msg)
    IN F[Len(steps)]

(* lines printed by the steps that completed *)
Printed(steps, fault) == SelectMsgs(SubSeq(steps, 1, FaultIndex(steps, fault) - 1))

(* objects touched, the faulting step's included *)
Touched(steps, fault) ==
    {steps[k].obj : k \in 1..Min(FaultIndex(steps, fault), Len(steps))} \ {NoObj}

(* whether the statement at `site` ran to its end *)
Completed(steps, fault, site) ==
    \E k \in 1..(FaultIndex(steps, fault) - 1) : steps[k].site = site

Sites(steps) == {steps[k].site : k \in 1..Len(steps)} \ {"-"}

(* A fault the environment can inject into the steps: none, or a raise at  *)
(* one of their sites.                                                     *)
Faults(steps) == {"none"} \cup Sites(steps)

(* the except clause of a probe: one line, the probe ends *)
Caught(steps, fault, tag) ==
    IF Faulted(steps, fault) THEN <<Line(tag)>> ELSE <<>>

(* the probes whose environment raised *)
Raised(steps, fault, probe) ==
    IF fault \in Sites(steps)
    THEN (IF fault = "League" THEN {"League"} ELSE {probe})
    ELSE {}

(* Where control goes when a probe ends: every probe's except clause ends  *)
(* the probe normally, so the caller goes on to `next` either way.         *)
ResumeUncaught(faulted, next) == IF faulted THEN "crashed" ELSE next

Resume(faulted, next) == next

(* ---- module import check (lines 6-11) ----------------------------------- *)
ImportOutcomes == {"ok", "ImportError"}

(* after the except clause of lines 9-11: exit(1) ends the process *)
AfterImportErrorFallsThrough == [pc |-> "main", status |-> Running]

AfterImportError == [pc |-> "exited", status |-> ExitFailure]

ImportCheck ==
    /\ pc = "import"
    /\ \E r \in ImportOutcomes :
         IF r = "ok"
         THEN /\ out' = Append(out, Line("imported"))
              /\ pc' = "main"
              /\ exitStatus' = exitStatus
              /\ raised' = raised
         ELSE /\ out' = Append(out, Line("import_failed"))
              /\ pc' = AfterImportError.pc
              /\ exitStatus' = AfterImportError.status
              /\ raised' = raised \cup {"import"}
    /\ UNCHANGED <<league, draft, picks, i, teams, teamIdx, roster, playerIdx,
                   calls, reads>>

(* ---- main, lines 118-119 ------------------------------------------------ *)
MainBanner ==
    /\ pc = "main"
    /\ out' = out \o <<Line("banner"), Line("banner_testing")>>
    /\ pc' = "test_league_access"
    /\ UNCHANGED <<exitStatus, league, draft, picks, i, teams, teamIdx, roster,
                   playerIdx, calls, reads, raised>>

(* ---- test_league_access (lines 13-34) ----------------------------------- *)
LeagueRef == <<"league", 0, 0>>

(* len(getattr(league, 'teams', [])) *)
TeamsLen(lg) ==
    IF Getattr("league", 0, 0, lg.attrs, "teams", "[]").kind = "default"
    THEN 0 ELSE lg.nteams

(* the try block, lines 23-28, for the league object lg the constructor returns *)
LeagueSteps(lg) ==
    LET name == Getattr("league", 0, 0, lg.attrs, "name", "Unknown Name")
        tms  == Getattr("league", 0, 0, lg.attrs, "teams", "[]")
        week == Getattr("league", 0, 0, lg.attrs, "current_week", "Unknown")
    IN << Say(LineV("connecting", LeagueId, <<Value("literal", Year, 0, "year")>>)),
          Step("League", LeagueRef, <<>>, NoMsg),
          Step("name", LeagueRef, <<name>>, LineV("league_connected", -1, <<name>>)),
          Step("teams", LeagueRef, <<tms>>, LineN("teams_count", TeamsLen(lg))),
          Step("current_week", LeagueRef, <<week>>, LineV("current_week", -1, <<week>>)) >>

(* the value test_league_access returns *)
LeagueResultAlways(lg, steps, fault) == lg

LeagueResultDropped(lg, steps, fault) == None

LeagueResult(lg, steps, fault) == IF Faulted(steps, fault) THEN None ELSE lg

TestLeagueAccess ==
    /\ pc = "test_league_access"
    /\ \E lg \in LeagueObjects :
         LET steps == LeagueSteps(lg) IN
         \E fault \in Faults(steps) :
            /\ out' = out \o <<Line("testing_league_access"), LineN("sep", SepWidth)>>
                          \o Printed(steps, fault)
                          \o Caught(steps, fault, "public_access_failed")
            /\ league' = LeagueResult(lg, steps, fault)
            /\ reads' = reads \cup Touched(steps, fault)
            /\ raised' = raised \cup Raised(steps, fault, "test_league_access")
            /\ pc' = Resume(Faulted(steps, fault), "test_draft_access")
    /\ calls' = Append(calls, "test_league_access")
    /\ UNCHANGED <<exitStatus, draft, picks, i, teams, teamIdx, roster, playerIdx>>

(* ---- test_draft_access (lines 36-80) ------------------------------------ *)
DraftRef == <<"draft", 0, 0>>
PicksRef == <<"picks", 0, 0>>
PickRef(j) == <<"pick", j, 0>>

(* dir(league) *)
LeagueDir(lg) ==
    lg.attrs \cup ObjectNames \cup LeagueMethodNames
             \cup (IF lg.draft.has THEN {"draft"} ELSE {})

(* lines 38-40 *)
DraftNoLeague ==
    /\ pc = "test_draft_access"
    /\ ~league.handle
    /\ out' = Append(out, Line("no_league_for_draft"))
    /\ calls' = Append(calls, "test_draft_access")
    /\ pc' = "test_teams_and_rosters"
    /\ UNCHANGED <<exitStatus, league, draft, picks, i, teams, teamIdx, roster,
                   playerIdx, reads, raised>>

(* the try block, lines 46-58 and 70-77, up to the loop *)
DraftSteps(lg) ==
    LET d == lg.draft IN
    <<Step("hasattr_draft", LeagueRef, <<>>, NoMsg)>> \o
    IF Hasattr(LeagueDir(lg), "draft")
    THEN << Say(Line("has_draft")),
            Step("draft", DraftRef, <<>>, Line("draft_type")),
            Step("hasattr_picks", DraftRef, <<>>, NoMsg) >> \o
         IF Hasattr(d.attrs, "picks")
         THEN << Step("picks", PicksRef, <<>>, NoMsg),
                 Step("len_picks", PicksRef, <<>>, LineN("total_picks", LenOrZero(d.picks))) >> \o
              IF Truthy(d.picks)
              THEN << Say(Line("picks_detected")),
                      Step("slice_picks", PicksRef, <<>>, NoMsg) >>
              ELSE << Say(Line("no_picks_found")) >>
         ELSE << Say(Line("no_picks_attr")),
                 Step("dir_draft", DraftRef, <<>>, Msg("draft_attrs", -1, <<>>, d.attrs)) >>
    ELSE << Say(Line("no_draft_attr")),
            Step("dir_league", LeagueRef, <<>>,
                 Msg("league_attrs", -1, <<>>, PublicNames(LeagueDir(lg)))) >>

(* whether the probe goes on to the loop of line 59 *)
EntersPickLoop(lg, steps, fault) ==
    /\ ~Faulted(steps, fault)
    /\ Hasattr(LeagueDir(lg), "draft")
    /\ Hasattr(lg.draft.attrs, "picks")
    /\ Truthy(lg.draft.picks)

DraftProbe ==
    /\ pc = "test_draft_access"
    /\ league.handle
    /\ LET steps == DraftSteps(league) IN
         \E fault \in Faults(steps) :
            /\ out' = out \o <<Line("testing_draft_access"), LineN("sep", SepWidth)>>
                          \o Printed(steps, fault)
                          \o Caught(steps, fault, "draft_access_failed")
            /\ reads' = reads \cup Touched(steps, fault)
            /\ raised' = raised \cup Raised(steps, fault, "test_draft_access")
            /\ draft' = IF Completed(steps, fault, "draft") THEN league.draft.attrs ELSE draft
            /\ picks' = IF Completed(steps, fault, "picks") THEN league.draft.picks ELSE picks
            /\ pc' = IF EntersPickLoop(league, steps, fault)
                     THEN "draft_loop"
                     ELSE Resume(Faulted(steps, fault), "test_teams_and_rosters")
    /\ calls' = Append(calls, "test_draft_access")
    /\ UNCHANGED <<exitStatus, league, i, teams, teamIdx, roster, playerIdx>>

(* one iteration of the loop, lines 59-69, on pick number i (from 0) *)
PickSteps(pick, idx) ==
    LET player_name == Getattr("pick", pick.id, 0, pick.attrs, "player_name", "Unknown Player")
        team_id     == Getattr("pick", pick.id, 0, pick.attrs, "team_id", "Unknown Team")
        round_num   == Getattr("pick", pick.id, 0, pick.attrs, "round_num", "Unknown Round")
        pick_num    == Getattr("pick", pick.id, 0, pick.attrs, "pick_num", "Unknown Pick")
    IN << Step("player_name", PickRef(pick.id), <<player_name>>, NoMsg),
          Step("team_id", PickRef(pick.id), <<team_id>>, NoMsg),
          Step("round_num", PickRef(pick.id), <<round_num>>, NoMsg),
          Step("pick_num", PickRef(pick.id), <<pick_num>>, NoMsg),
          Say(LineV("pick", idx + 1, <<round_num, pick_num>>)),
          Say(LineV("pick_team", -1, <<team_id, player_name>>)) >>

(* picks[:10] *)
ShownPicks(ps) == Take(ps.items, PickSlice)

(* `if i >= 5: break`, or the list is exhausted *)
PickLoopEndsNever(ps, idx) == idx + 1 >= Len(ShownPicks(ps))

PickLoopEnds(ps, idx) == idx >= PickBreak \/ idx + 1 >= Len(ShownPicks(ps))

DraftLoop ==
    /\ pc = "draft_loop"
    /\ LET steps == PickSteps(ShownPicks(picks)[i + 1], i) IN
       \E fault \in Faults(steps) :
          /\ out' = out \o Printed(steps, fault)
                        \o Caught(steps, fault, "draft_access_failed")
          /\ reads' = reads \cup Touched(steps, fault)
          /\ raised' = raised \cup Raised(steps, fault, "test_draft_access")
          /\ IF Faulted(steps, fault) \/ PickLoopEnds(picks, i)
             THEN /\ pc' = Resume(Faulted(steps, fault), "test_teams_and_rosters")
                  /\ i' = i
             ELSE pc' = "draft_loop" /\ i' = i + 1
    /\ UNCHANGED <<exitStatus, league, draft, picks, teams, teamIdx, roster,
                   playerIdx, calls>>

(* ---- test_teams_and_rosters (lines 82-115) ------------------------------ *)
TeamRef(k) == <<"team", k, 0>>
RosterRef(k) == <<"roster", k, 0>>
PlayerRef(k, j) == <<"player", k, j>>

(* lines 84-85 *)
RosterNoLeague ==
    /\ pc = "test_teams_and_rosters"
    /\ ~league.handle
    /\ calls' = Append(calls, "test_teams_and_rosters")
    /\ pc' = "summary"
    /\ UNCHANGED <<out, exitStatus, league, draft, picks, i, teams, teamIdx, roster,
                   playerIdx, reads, raised>>

(* getattr(league, 'teams', []) for the team objects ts the league holds *)
TeamsOf(lg, ts) ==
    IF Getattr("league", 0, 0, lg.attrs, "teams", "[]").kind = "default"
    THEN <<>> ELSE ts

(* lines 91-94, up to the loop *)
TeamsSteps(lg, ts) ==
    LET tms == Getattr("league", 0, 0, lg.attrs, "teams", "[]")
    IN << Step("teams", LeagueRef, <<tms>>, NoMsg),
          Step("len_teams", LeagueRef, <<>>, LineN("found_teams", Len(TeamsOf(lg, ts)))),
          Step("slice_teams", LeagueRef, <<>>, NoMsg) >>

(* teams[:3] *)
ShownTeamsAll(ts) == ts

ShownTeams(ts) == Take(ts, TeamSlice)

(* roster[:3] *)
ShownPlayers(r) == Take(r.items, PlayerSlice)

RosterProbe ==
    /\ pc = "test_teams_and_rosters"
    /\ league.handle
    /\ LET ts == TeamObjs(league)
             steps == TeamsSteps(league, ts)
         IN \E fault \in Faults(steps) :
            /\ out' = out \o <<Line("testing_teams_and_rosters"), LineN("sep", SepWidth)>>
                          \o Printed(steps, fault)
                          \o Caught(steps, fault, "teams_roster_failed")
            /\ reads' = reads \cup Touched(steps, fault)
            /\ raised' = raised \cup Raised(steps, fault, "test_teams_and_rosters")
            /\ teams' = IF Completed(steps, fault, "teams") THEN TeamsOf(league, ts) ELSE teams
            /\ pc' = IF ~Faulted(steps, fault) /\ Len(ShownTeams(TeamsOf(league, ts))) > 0
                     THEN "team_loop"
                     ELSE Resume(Faulted(steps, fault), "summary")
    /\ calls' = Append(calls, "test_teams_and_rosters")
    /\ UNCHANGED <<exitStatus, league, draft, picks, i, teamIdx, roster, playerIdx>>

(* one iteration of the loop of line 94, lines 95-106 and 111-112, on the  *)
(* team at position idx (from 0), up to the loop over its roster           *)
TeamSteps(team) ==
    LET team_id   == Getattr("team", team.id, 0, team.attrs, "team_id", "Unknown")
        team_name == Getattr("team", team.id, 0, team.attrs, "team_name", "Unknown")
        owner     == Getattr("team", team.id, 0, team.attrs, "owner", "Unknown")
    IN << Step("team_id", TeamRef(team.id), <<team_id>>, NoMsg),
          Step("team_name", TeamRef(team.id), <<team_name>>, NoMsg),
          Step("owner", TeamRef(team.id), <<owner>>,
               LineV("team", -1, <<team_id, team_name, owner>>)),
          Step("hasattr_roster", TeamRef(team.id), <<>>, NoMsg) >> \o
       IF Hasattr(team.attrs, "roster")
       THEN << Step("roster", RosterRef(team.id), <<>>, NoMsg),
               Step("len_roster", RosterRef(team.id), <<>>,
                    LineN("roster_size", LenOrZero(team.roster))) >> \o
            IF Truthy(team.roster)
            THEN << Step("slice_roster", RosterRef(team.id), <<>>, NoMsg) >>
            ELSE << >>
       ELSE << Say(Line("no_roster_attr")) >>

EntersPlayerLoop(team, steps, fault) ==
    ~Faulted(steps, fault) /\ Hasattr(team.attrs, "roster") /\ Truthy(team.roster)

(* where the loop of line 94 goes after the team at position idx *)
AfterTeam(ts, idx) ==
    IF idx + 1 < Len(ShownTeams(ts)) THEN "team_loop" ELSE "summary"

(* where control goes when an interaction raises while the team at        *)
(* position idx is inspected: the try block encloses the whole loop, so    *)
(* the except clause of lines 114-115 ends the probe                       *)
AfterRosterFaultPerTeam(ts, idx) == AfterTeam(ts, idx)

AfterRosterFault(ts, idx) == "summary"

(* the loop variable after the iteration on position idx *)
NextTeamIdx(next, idx) == IF next = "team_loop" THEN idx + 1 ELSE idx

TeamLoop ==
    /\ pc = "team_loop"
    /\ LET team == ShownTeams(teams)[teamIdx + 1]
           steps == TeamSteps(team)
       IN \E fault \in Faults(steps) :
          /\ out' = out \o Printed(steps, fault)
                        \o Caught(steps, fault, "teams_roster_failed")
          /\ reads' = reads \cup Touched(steps, fault)
          /\ raised' = raised \cup Raised(steps, fault, "test_teams_and_rosters")
          /\ roster' = IF Completed(steps, fault, "roster") THEN team.roster ELSE roster
          /\ playerIdx' = 0
          /\ pc' = IF Faulted(steps, fault)
                   THEN Resume(TRUE, AfterRosterFault(teams, teamIdx))
                   ELSE IF EntersPlayerLoop(team, steps, fault)
                        THEN "player_loop"
                        ELSE AfterTeam(teams, teamIdx)
          /\ teamIdx' = NextTeamIdx(pc', teamIdx)
    /\ UNCHANGED <<exitStatus, league, draft, picks, i, teams, calls>>

(* one iteration of the loop of line 107, lines 108-110 *)
PlayerSteps(team, player) ==
    LET name     == Getattr("player", team.id, player.id, player.attrs, "name", "Unknown Player")
        position == Getattr("player", team.id, player.id, player.attrs, "position",
                            "Unknown Position")
    IN << Step("name", PlayerRef(team.id, player.id), <<name>>, NoMsg),
          Step("position", PlayerRef(team.id, player.id), <<position>>,
               LineV("player", -1, <<name, position>>)) >>

PlayerLoop ==
    /\ pc = "player_loop"
    /\ LET team == ShownTeams(teams)[teamIdx + 1]
           steps == PlayerSteps(team, ShownPlayers(roster)[playerIdx + 1])
           last == playerIdx + 1 >= Len(ShownPlayers(roster))
       IN \E fault \in Faults(steps) :
          /\ out' = out \o Printed(steps, fault)
                        \o Caught(steps, fault, "teams_roster_failed")
          /\ reads' = reads \cup Touched(steps, fault)
          /\ raised' = raised \cup Raised(steps, fault, "test_teams_and_rosters")
          /\ pc' = IF Faulted(steps, fault)
                   THEN Resume(TRUE, AfterRosterFault(teams, teamIdx))
                   ELSE IF ~last THEN "player_loop" ELSE AfterTeam(teams, teamIdx)
          /\ teamIdx' = NextTeamIdx(pc', teamIdx)
          /\ playerIdx' = IF pc' = "player_loop" THEN playerIdx + 1 ELSE playerIdx
    /\ UNCHANGED <<exitStatus, league, draft, picks, i, teams, roster, calls>>

(* ---- main, lines 130-140, and the end of the process --------------------- *)
SuccessVerdict ==
    << Line("can_connect"), Line("might_be_solution"), Line("next_steps"),
       Line("step_1_cookies"), Line("step_2_active_draft"), Line("step_3_discord") >>

FailureVerdict == << Line("could_not_connect"), Line("may_need_cookies") >>

VerdictInverted(lg) == IF lg.handle THEN FailureVerdict ELSE SuccessVerdict

Verdict(lg) == IF lg.handle THEN SuccessVerdict ELSE FailureVerdict

Summary ==
    /\ pc = "summary"
    /\ out' = out \o <<Line("summary")>> \o Verdict(league)
    /\ calls' = Append(calls, "summary")
    /\ pc' = "done"
    /\ exitStatus' = ExitSuccess
    /\ UNCHANGED <<league, draft, picks, i, teams, teamIdx, roster, playerIdx,
                   reads, raised>>

Init ==
    /\ pc = "import"
    /\ out = <<>>
    /\ exitStatus = Running
    /\ league = None
    /\ draft = {}
    /\ picks = NoneValue
    /\ i = 0
    /\ teams = <<>>
    /\ teamIdx = 0
    /\ roster = NoneValue
    /\ playerIdx = 0
    /\ calls = <<>>
    /\ reads = {}
    /\ raised = {}

Next ==
    \/ ImportCheck
    \/ MainBanner
    \/ TestLeagueAccess
    \/ DraftNoLeague
    \/ DraftProbe
    \/ DraftLoop
    \/ RosterNoLeague
    \/ RosterProbe
    \/ TeamLoop
    \/ PlayerLoop
    \/ Summary

Spec == Init /\ [][Next]_vars

(* ======================================================================= *)
(* Properties                                                              *)
(* ======================================================================= *)
Has(tag) == \E k \in DOMAIN out : out[k].tag = tag
Count(tag) == Cardinality({k \in DOMAIN out : out[k].tag = tag})
First(tag) == CHOOSE k \in DOMAIN out :
                 out[k].tag = tag /\ \A j \in 1..(k - 1) : out[j].tag # tag
EndsWith(tail) ==
    /\ Len(out) >= Len(tail)
    /\ SubSeq(out, Len(out) - Len(tail) + 1, Len(out)) = tail
CallOrder == <<"test_league_access", "test_draft_access",
               "test_teams_and_rosters", "summary">>

(* control is past test_league_access / past test_draft_access *)
LeagueDone == pc \in {"test_draft_access", "draft_loop", "test_teams_and_rosters",
                      "team_loop", "player_loop", "summary", "done"}
DraftDone == pc \in {"test_teams_and_rosters", "team_loop", "player_loop",
                     "summary", "done"}

(* what stdout holds when test_league_access is entered *)
Preamble == <<Line("imported"), Line("banner"), Line("banner_testing")>>

(* C1: when the import raises ImportError the process prints the           *)
(* import-failure line and nothing else, ends with exit status 1, and no   *)
(* probe and no summary runs, reads or prints.                             *)
C1_ImportFailureIsFatal ==
    "import" \in raised =>
        /\ pc = "exited"
        /\ exitStatus = 1
        /\ out = <<Line("import_failed")>>
        /\ calls = <<>>
        /\ reads = {}
        /\ ~ENABLED Next

C1_Witness == "import" \in raised /\ exitStatus = 1

(* C2 as stated: when the League constructor raises, test_league_access    *)
(* returns None and both later probes print a "no league" line: the draft  *)
(* probe's line is followed by a line of the roster probe.                 *)
C2_Original ==
    ("League" \in raised /\ pc = "done") =>
        /\ ~league.handle
        /\ Count("no_league_for_draft") = 1
        /\ out[First("no_league_for_draft") + 1].tag # "summary"

(* C2, amended: when the League constructor raises, test_league_access     *)
(* prints the failure line and returns None; test_draft_access prints its  *)
(* "no league" line and returns; test_teams_and_rosters returns without    *)
(* printing anything; neither raises, and the run goes on to the summary.  *)
C2_NoLeagueProbes ==
    "League" \in raised =>
        LET upToLeague == Preamble \o <<Line("testing_league_access"), LineN("sep", 50),
                              LineV("connecting", 449753582,
                                    <<Value("literal", 2025, 0, "year")>>),
                              Line("public_access_failed")>>
            upToRoster == upToLeague \o <<Line("no_league_for_draft")>>
        IN /\ LeagueDone
           /\ ~league.handle
           /\ pc = "test_draft_access" => out = upToLeague
           /\ pc \in {"test_teams_and_rosters", "summary"} => out = upToRoster
           /\ pc = "done" => /\ SubSeq(out, 1, Len(upToRoster) + 1)
                                  = upToRoster \o <<Line("summary")>>
                             /\ calls = CallOrder
                             /\ exitStatus = 0
           /\ reads = {<<"league", 0, 0>>}
           /\ raised = {"League"}

C2_Witness == "League" \in raised /\ pc = "done"

(* C3 as stated: test_league_access returns the league handle whenever the *)
(* constructor succeeds and None only when the constructor itself raises.  *)
C3_Original ==
    LeagueDone => (league.handle <=> "League" \notin raised)

(* C3, amended: test_league_access returns the league handle exactly when  *)
(* neither the constructor nor one of the three reads of lines 26-28       *)
(* raises; it then has printed the name, the team count and the current    *)
(* week, each with its default when the attribute is absent, for every     *)
(* combination of the three attributes.                                    *)
C3_LeagueHandle ==
    LeagueDone =>
        /\ league.handle <=> raised \cap {"League", "test_league_access"} = {}
        /\ league.handle =>
             SubSeq(out, 7, 9) =
               << LineV("league_connected", -1,
                        << IF "name" \in league.attrs
                           THEN Value("league", 0, 0, "name")
                           ELSE Default("Unknown Name") >>),
                  LineN("teams_count",
                        IF "teams" \in league.attrs THEN league.nteams ELSE 0),
                  LineV("current_week", -1,
                        << IF "current_week" \in league.attrs
                           THEN Value("league", 0, 0, "current_week")
                           ELSE Default("Unknown") >>) >>
        /\ ~league.handle => EndsWith(<<Line("public_access_failed")>>)
                             \/ pc # "test_draft_access"

C3_Witness ==
    /\ pc = "test_draft_access"
    /\ league.handle
    /\ league.attrs = {}
    /\ Len(out) = 9

(* the number of `tag` lines among the first k lines of stdout *)
CountUpTo(tag, k) == Cardinality({j \in 1..k : out[j].tag = tag})

(* what the f-strings must show for attribute attr of an object that has   *)
(* the attributes attrs: its value, or the literal placeholder             *)
Shown(kind, t, p, attrs, attr, placeholder) ==
    IF attr \in attrs
    THEN [kind |-> kind, t |-> t, p |-> p, text |-> attr]
    ELSE [kind |-> "default", t |-> 0, p |-> 0, text |-> placeholder]

(* the sixth iteration is the last: `if i >= 5: break` *)
DisplayLimit == 6

(* the two lines of the m-th pick entry, at lines k and k + 1 of stdout *)
PickEntryAt(k, m) ==
    LET pk == picks.items[m] IN
    /\ m <= Len(picks.items)
    /\ out[k] = LineV("pick", m,
                  << Shown("pick", m, 0, pk.attrs, "round_num", "Unknown Round"),
                     Shown("pick", m, 0, pk.attrs, "pick_num", "Unknown Pick") >>)
    /\ k + 1 <= Len(out)
    /\ out[k + 1] = LineV("pick_team", -1,
                      << Shown("pick", m, 0, pk.attrs, "team_id", "Unknown Team"),
                         Shown("pick", m, 0, pk.attrs, "player_name", "Unknown Player") >>)

TotalPrinted(n) == \E k \in DOMAIN out : out[k].tag = "total_picks" /\ out[k].n = n

C5_FirstThree ==
    /\ \A r \in reads :
         /\ r[1] \in {"team", "roster", "player"} => r[2] <= 3
         /\ r[1] = "player" => r[3] <= 3
    /\ Count("team") <= 3
    /\ Count("roster_size") + Count("no_roster_attr") <= 3
    /\ Count("player") <= 3 * Count("roster_size")
    /\ \A k \in DOMAIN out : \A v \in 1..Len(out[k].vals) :
         out[k].vals[v].kind \in {"team", "player"} =>
            out[k].vals[v].t <= 3 /\ out[k].vals[v].p <= 3

C5_Witness ==
    /\ pc = "done"
    /\ Len(teams) > 3
    /\ \E k \in 1..3 : /\ Len(teams[k].roster.items) > 3
                       /\ <<"player", k, 3>> \in reads
    /\ Count("team") = 3
    /\ ~Has("teams_roster_failed")

(* the team whose line is the last "team" line among the first k lines,    *)
(* and the index of that line                                              *)
TeamAt(k) == CountUpTo("team", k)
TeamLineBefore(k) == CHOOSE j \in 1..k :
                        out[j].tag = "team" /\ \A h \in (j + 1)..k : out[h].tag # "team"

(* C6: an attribute that is missing is rendered as its placeholder (for    *)
(* roster: reported by the "no roster" line) in the normal output, for     *)
(* the league, every pick, every team and every player printed; and a      *)
(* probe's except clause runs only when an interaction raised, never       *)
(* because an attribute is missing.                                        *)
C6_MissingRendersPlaceholder ==
    /\ Has("public_access_failed") => raised \cap {"League", "test_league_access"} # {}
    /\ Has("draft_access_failed") => "test_draft_access" \in raised
    /\ Has("teams_roster_failed") => "test_teams_and_rosters" \in raised
    /\ (league.handle /\ DraftDone /\ "test_draft_access" \notin raised) =>
         /\ ~league.draft.has => Has("no_draft_attr") /\ Has("league_attrs")
         /\ (league.draft.has /\ "picks" \notin league.draft.attrs) =>
              Has("no_picks_attr") /\ Has("draft_attrs")
    /\ \A k \in DOMAIN out :
         /\ out[k].tag = "league_connected" /\ league.handle =>
              out[k].vals = <<Shown("league", 0, 0, league.attrs, "name", "Unknown Name")>>
         /\ out[k].tag = "current_week" /\ league.handle =>
              out[k].vals = <<Shown("league", 0, 0, league.attrs, "current_week", "Unknown")>>
         /\ out[k].tag = "teams_count" /\ league.handle /\ "teams" \notin league.attrs =>
              out[k].n = 0
         /\ out[k].tag = "found_teams" /\ "teams" \notin league.attrs => out[k].n = 0
         /\ out[k].tag = "pick" =>
              LET m == out[k].n IN
              out[k].vals =
                << Shown("pick", m, 0, PickAttrsOf(m), "round_num", "Unknown Round"),
                   Shown("pick", m, 0, PickAttrsOf(m), "pick_num", "Unknown Pick") >>
         /\ out[k].tag = "pick_team" =>
              LET m == out[k - 1].n IN
              out[k].vals =
                << Shown("pick", m, 0, PickAttrsOf(m), "team_id", "Unknown Team"),
                   Shown("pick", m, 0, PickAttrsOf(m), "player_name", "Unknown Player") >>
         /\ out[k].tag = "team" =>
              LET m == TeamAt(k) IN
              /\ out[k].vals =
                   << Shown("team", m, 0, teams[m].attrs, "team_id", "Unknown"),
                      Shown("team", m, 0, teams[m].attrs, "team_name", "Unknown"),
                      Shown("team", m, 0, teams[m].attrs, "owner", "Unknown") >>
              /\ ("roster" \notin teams[m].attrs /\ k < Len(out)) =>
                   out[k + 1].tag \in {"no_roster_attr", "teams_roster_failed"}
         /\ out[k].tag = "no_roster_attr" => "roster" \notin teams[TeamAt(k)].attrs
         /\ out[k].tag = "player" =>
              LET m == TeamAt(k)
                  j == k - TeamLineBefore(k) - 1
                  pl == teams[m].roster.items[j]
              IN out[k].vals =
                   << Shown("player", m, j, pl.attrs, "name", "Unknown Player"),
                      Shown("player", m, j, pl.attrs, "position", "Unknown Position") >>

C6_Witness ==
    /\ pc = "done"
    /\ league.handle
    /\ league.attrs = {"teams"}
    /\ raised = {}
    /\ Count("pick") >= 2
    /\ Has("no_roster_attr")
    /\ Count("player") >= 2

(* the position of control in the script, and whether a step moves forward *)
Rank(p) ==
    CASE p = "import" -> 0
      [] p = "main" -> 1
      [] p = "test_league_access" -> 2
      [] p = "test_draft_access" -> 3
      [] p = "draft_loop" -> 4
      [] p = "test_teams_and_rosters" -> 5
      [] p \in {"team_loop", "player_loop"} -> 6
      [] p = "summary" -> 7
      [] p \in {"done", "exited"} -> 8
      [] OTHER -> -1

Advances ==
    \/ Rank(pc') > Rank(pc)
    \/ /\ pc = "draft_loop" /\ pc' = "draft_loop"
       /\ i' = i + 1 /\ i' <= 5
    \/ /\ Rank(pc) = 6 /\ Rank(pc') = 6
       /\ \/ teamIdx' = teamIdx + 1 /\ teamIdx' < 3
          \/ teamIdx' = teamIdx /\ pc = "team_loop" /\ pc' = "player_loop"
          \/ teamIdx' = teamIdx /\ playerIdx' = playerIdx + 1 /\ playerIdx' < 3

(* C7: when the import succeeds the run calls test_league_access,          *)
(* test_draft_access, test_teams_and_rosters and the summary in that       *)
(* order, whatever raises inside the probes, every step moves forward (a   *)
(* loop always has the element it is about to inspect) until the process   *)
(* ends, and it ends with exit status 0; the only early exit and the only  *)
(* non-zero status is the import failure's.                                *)
C7_RunsToCompletion ==
    /\ [](/\ Rank(pc) >= 0
          /\ calls = SubSeq(CallOrder, 1, Len(calls))
          /\ Len(calls) = (CASE Rank(pc) <= 2 -> 0
                             [] Rank(pc) = 3 -> 1
                             [] Rank(pc) \in {4, 5} -> 2
                             [] Rank(pc) \in {6, 7} -> 3
                             [] pc = "done" -> 4
                             [] OTHER -> 0)
          /\ pc = "done" => exitStatus = 0 /\ "import" \notin raised
          /\ pc = "exited" => "import" \in raised /\ calls = <<>>
          /\ exitStatus # -1 <=> pc \in {"done", "exited"}
          /\ exitStatus # 0 /\ exitStatus # -1 => "import" \in raised
          /\ pc = "draft_loop" => i < Len(ShownPicks(picks))
          /\ pc \in {"team_loop", "player_loop"} => teamIdx < Len(ShownTeams(teams))
          /\ pc = "player_loop" => playerIdx < Len(ShownPlayers(roster)))
    /\ [][Advances]_vars

C7_Witness ==
    /\ pc = "done"
    /\ exitStatus = 0
    /\ {"test_draft_access", "test_teams_and_rosters"} \subseteq raised

(* C8: the summary prints the success verdict with the three next steps    *)
(* when test_league_access returned a handle and the failure verdict       *)
(* otherwise, exactly one of the two per run, whether or not the draft or  *)
(* the roster probe failed; when the constructor raised, "Public access    *)
(* failed" is printed before the "couldn't connect" verdict.               *)
C8_Verdict ==
    /\ pc # "done" => ~Has("summary") /\ ~Has("can_connect") /\ ~Has("could_not_connect")
    /\ pc = "done" =>
         /\ Count("summary") = 1
         /\ Count("can_connect") + Count("could_not_connect") = 1
         /\ league.handle =>
              EndsWith(<< Line("summary"), Line("can_connect"), Line("might_be_solution"),
                          Line("next_steps"), Line("step_1_cookies"),
                          Line("step_2_active_draft"), Line("step_3_discord") >>)
         /\ ~league.handle =>
              EndsWith(<< Line("summary"), Line("could_not_connect"),
                          Line("may_need_cookies") >>)
         /\ "League" \in raised =>
              /\ Has("public_access_failed") /\ Has("could_not_connect")
              /\ First("public_access_failed") < First("could_not_connect")

C8_Witness ==
    /\ pc = "done"
    /\ league.handle
    /\ raised = {"test_draft_access"}
    /\ Has("can_connect")

(* the four outcomes of the draft probe, as what it printed *)
OutcomeNoDraft ==
    /\ Has("no_draft_attr")
    /\ \E k \in DOMAIN out :
         /\ out[k].tag = "league_attrs"
         /\ out[k].names = league.attrs \cup {"refresh", "standings"}
OutcomeNoPicksAttr ==
    /\ Has("no_picks_attr")
    /\ \E k \in DOMAIN out :
         out[k].tag = "draft_attrs" /\ out[k].names = league.draft.attrs
OutcomeEmptyPicks == TotalPrinted(0) /\ Has("no_picks_found")
OutcomePicks ==
    /\ \E k \in DOMAIN out : out[k].tag = "total_picks" /\ out[k].n > 0
    /\ Has("picks_detected")
    /\ Count("pick") >= 1
Outcomes ==
    {o \in 1..4 : \/ o = 1 /\ OutcomeNoDraft
                  \/ o = 2 /\ OutcomeNoPicksAttr
                  \/ o = 3 /\ OutcomeEmptyPicks
                  \/ o = 4 /\ OutcomePicks}

(* the draft attribute is tested before the picks, and the picks are read  *)
(* only when the draft attribute exists                                    *)
DraftBeforePicks ==
    /\ <<"picks", 0, 0>> \in reads => league.draft.has /\ Has("has_draft")
    /\ Has("no_draft_attr") => ~league.draft.has /\ reads \cap {<<"draft", 0, 0>>,
                                                               <<"picks", 0, 0>>} = {}
    /\ ~(Has("has_draft") /\ Has("no_draft_attr"))
    /\ LET later == {k \in DOMAIN out :
                       out[k].tag \in {"total_picks", "no_picks_attr", "draft_attrs",
                                       "picks_detected", "no_picks_found", "pick"}}
       IN later # {} =>
            Has("has_draft") /\ \A k \in later : First("has_draft") < k

(* C9 as stated: with a league handle the draft probe reaches exactly one  *)
(* of the four outcomes.                                                   *)
C9_Original ==
    (DraftDone /\ league.handle) =>
        Cardinality(Outcomes) = 1 /\ DraftBeforePicks

(* C9, amended: with a league handle the draft probe tests the draft       *)
(* attribute before the picks, never reads the picks unless the draft      *)
(* attribute exists, and reaches at most one of the four outcomes: exactly *)
(* one, the one that matches the league, when no interaction of the probe  *)
(* raises; when one raises before an outcome is complete, the probe prints *)
(* "Draft access failed" and reaches none.                                 *)
C9_DraftOutcomes ==
    league.handle =>
        /\ DraftBeforePicks
        /\ Cardinality(Outcomes) <= 1
        /\ DraftDone =>
             /\ Outcomes = {} => Has("draft_access_failed")
             /\ ~Has("draft_access_failed") =>
                  Outcomes = { CASE ~league.draft.has -> 1
                                 [] "picks" \notin league.draft.attrs -> 2
                                 [] league.draft.picks.none -> 3
                                 [] Len(league.draft.picks.items) = 0 -> 3
                                 [] OTHER -> 4 }

C9_Witness ==
    /\ DraftDone
    /\ league.handle
    /\ OutcomeNoDraft
    /\ ~Has("draft_access_failed")

(* C10: an error raised while the k-th of the first three teams is         *)
(* inspected ends the roster probe: one "Teams/roster access failed" line, *)
(* no later team or player inspected or printed, the output printed        *)
(* before stands, and the summary still reports the success verdict.       *)
C10_RosterErrorEndsProbe ==
    /\ [](/\ Count("teams_roster_failed") <= 1
          /\ "test_teams_and_rosters" \in raised <=> Has("teams_roster_failed")
          /\ Has("teams_roster_failed") =>
               /\ league.handle
               /\ pc \in {"summary", "done"}
               /\ First("teams_roster_failed") < Len(out) =>
                    out[First("teams_roster_failed") + 1] = Line("summary")
               /\ Count("team") <= teamIdx + 1
               /\ \A r \in reads :
                    /\ r[1] \in {"team", "roster", "player"} => r[2] <= teamIdx + 1
                    /\ r[1] = "player" /\ r[2] = teamIdx + 1 => r[3] <= playerIdx + 1
               /\ pc = "done" =>
                    EndsWith(<< Line("summary"), Line("can_connect"),
                                Line("might_be_solution"), Line("next_steps"),
                                Line("step_1_cookies"), Line("step_2_active_draft"),
                                Line("step_3_discord") >>))
    /\ [][Len(out') >= Len(out) /\ SubSeq(out', 1, Len(out)) = out]_vars

C10_Witness ==
    /\ pc = "done"
    /\ "test_teams_and_rosters" \in raised
    /\ Len(teams) >= 3
    /\ teamIdx = 1
    /\ Count("team") = 2
    /\ Has("player")
    /\ <<"team", 3, 0>> \notin reads
====
